---- MODULE Spec2Model ----
(***************************************************************************)
(* Audio transcription pipeline of next-saas-starter-with-transcription:   *)
(*   - the chunker        processAudioFile       (lib/audio/processor.ts)  *)
(*   - the client         transcribeAudio        (lib/audio/groq.ts)       *)
(*   - the merger         combineTranscriptions  (lib/audio/groq.ts)       *)
(*   - the orchestrator   processTranscription   (transcription actions)   *)
(*                                                                         *)
(* Representation.                                                         *)
(*   Byte sizes are exact byte counts.  A Blob is the byte range           *)
(*   [start, end) of the uploaded payload that it holds, plus its MIME     *)
(*   type; the File itself is the range [0, size).                         *)
(*   A text is a sequence of one-character strings; a message is a         *)
(*   sequence of string tokens; joining and trimming act on sequences.     *)
(*   Times are integers counted in ticks of half a millisecond, so that    *)
(*   toFixed(3) and Math.round are real roundings.                         *)
(*   An optional field (error?, success?, errorLog: string | null) is the  *)
(*   empty set when absent and a singleton set when present.               *)
(***************************************************************************)
EXTENDS Integers, Sequences, FiniteSets, TLC

VARIABLES
    file,                 \* the uploaded File: [size, type, name]
    pc,                   \* position in the code
    userWithTeam,         \* result of getUserWithTeam: [teamId |-> optional]
    processedAudio,       \* result of processAudioFile
    i,                    \* loop index of the chunk loop
    completedChunks,      \* progress counter of the chunk loop
    calls,                \* provider calls issued so far (chunk index, chunk, name)
    outcomes,             \* what the provider answered to each finished call
    transcriptionResults, \* successful TranscriptionResponses, in push order
    errors,               \* per-chunk failure messages, in push order
    mergeInputs,          \* arguments combineTranscriptions was called with
    combined,             \* result of combineTranscriptions
    transcriptionData,    \* record handed to saveTranscription (optional)
    saveCalls,            \* number of saveTranscription calls made
    db,                   \* rows of the transcriptions table
    caught,               \* the value the top-level catch received (optional)
    response              \* TranscriptionActionResponse returned to the caller

vars == <<file, pc, userWithTeam, processedAudio, i, completedChunks, calls,
          outcomes, transcriptionResults, errors, mergeInputs, combined,
          transcriptionData, saveCalls, db, caught, response>>

(***************************************************************************)
(* Bounds of the model.                                                    *)
(***************************************************************************)
\* Largest payload size, in MiB, given to the chunker on its own.
MaxFileMiB == 501
\* Largest number of chunks of one submission, and of transcripts in one merge.
MaxChunks == 3
\* Largest chunk-local time (in ticks) a provider segment carries.
MaxTime == 2
\* Largest total number of segments over the transcripts of one merge (the
\* merges tried differ in their segments, in their texts or in their languages).
MaxSegments == 3
\* Largest total number of characters over the texts of one merge.
MaxTextLen == 3

(***************************************************************************)
(* Generic helpers.                                                        *)
(***************************************************************************)
None == {}

Some(v) == {v}

Min(a, b) == IF a <= b THEN a ELSE b

Max(a, b) == IF a >= b THEN a ELSE b

RECURSIVE Concat(_)
\* The concatenation of a sequence of sequences.
Concat(ss) ==
    IF Len(ss) = 0 THEN <<>> ELSE Head(ss) \o Concat(Tail(ss))

RECURSIVE Join(_, _)
\* Array.prototype.join on an array of strings.
Join(ss, sep) ==
    IF Len(ss) = 0 THEN <<>>
    ELSE IF Len(ss) = 1 THEN ss[1]
    ELSE ss[1] \o sep \o Join(Tail(ss), sep)

\* White space as String.prototype.trim sees it (the part that occurs here).
WhiteSpace == {" ", "\t", "\n"}

RECURSIVE TrimStart(_)
TrimStart(s) ==
    IF Len(s) > 0 /\ Head(s) \in WhiteSpace THEN TrimStart(Tail(s)) ELSE s

RECURSIVE TrimEnd(_)
TrimEnd(s) ==
    IF Len(s) > 0 /\ s[Len(s)] \in WhiteSpace
    THEN TrimEnd(SubSeq(s, 1, Len(s) - 1))
    ELSE s

\* String.prototype.trim
Trim(s) == TrimEnd(TrimStart(s))

\* A thrown value: an Error carrying a message, or something that is no Error.
ErrorOf(msg) == [isError |-> TRUE, message |-> msg]

NonError == [isError |-> FALSE, message |-> <<>>]

(***************************************************************************)
(* The chunker: lib/audio/processor.ts                                     *)
(***************************************************************************)
MiB == 1024 * 1024

MAX_FILE_SIZE == 500 * MiB

MAX_CHUNK_SIZE == 20 * MiB

GROQ_SIZE_LIMIT == 25 * MiB

\* ArrayBuffer.prototype.slice(begin, end) on a buffer of byteLength bytes:
\* both ends are clamped to the buffer.
Slice(byteLength, begin, end) ==
    LET b == Min(Max(begin, 0), byteLength)
        e == Min(Max(end, 0), byteLength)
    IN  [start |-> b, end |-> Max(b, e)]

\* new Blob([chunk], { type })
Blob(range, type) == [start |-> range.start, end |-> range.end, type |-> type]

\* The File seen as a Blob: all of its bytes.
FileBlob(f) == [start |-> 0, end |-> f.size, type |-> f.type]

ExceedsMaxFileSize(size) == size > MAX_FILE_SIZE

\* Faulty variant: a payload of exactly the limit is split.
IsUnderGroqLimit_Strict(size) == size < GROQ_SIZE_LIMIT

\* Faulty variant: the wrong limit is compared against.
IsUnderGroqLimit_MaxFile(size) == size <= MAX_FILE_SIZE

IsUnderGroqLimit(size) == size <= GROQ_SIZE_LIMIT

\* Faulty variant: chunks are cut at the provider ceiling.
ChunkSizeAt_GroqLimit(byteLength, offset) ==
    Min(GROQ_SIZE_LIMIT, byteLength - offset)

ChunkSizeAt(byteLength, offset) == Min(MAX_CHUNK_SIZE, byteLength - offset)

RECURSIVE SplitFrom(_, _, _, _)
\* The while loop: chunks pushed from `offset` on.
SplitFrom(byteLength, type, offset, chunks) ==
    IF offset < byteLength
    THEN LET chunkSize == ChunkSizeAt(byteLength, offset)
             chunk == Slice(byteLength, offset, offset + chunkSize)
         IN  SplitFrom(byteLength, type, offset + chunkSize,
                       Append(chunks, Blob(chunk, type)))
    ELSE chunks

\* What processAudioFile returns (ok) or throws (~ok).
processAudioFile(f) ==
    IF ExceedsMaxFileSize(f.size)
    THEN [ok |-> FALSE,
          thrown |-> ErrorOf(<<"File size exceeds maximum limit of ",
                             ToString(MAX_FILE_SIZE \div MiB), "MB">>)]
    ELSE IF IsUnderGroqLimit(f.size)
    THEN [ok |-> TRUE, chunks |-> <<FileBlob(f)>>, fileName |-> f.name,
          fileType |-> f.type, totalSize |-> f.size]
    ELSE [ok |-> TRUE, chunks |-> SplitFrom(f.size, f.type, 0, <<>>),
          fileName |-> f.name, fileType |-> f.type, totalSize |-> f.size]

(***************************************************************************)
(* The transcription client and the merger: lib/audio/groq.ts              *)
(***************************************************************************)
\* transcribeAudio around one provider call: the response is passed on, and
\* whatever the call throws is rethrown as an Error.
transcribeAudio(providerOutcome) ==
    IF providerOutcome.ok
    THEN providerOutcome
    ELSE [ok |-> FALSE,
          thrown |-> ErrorOf(IF providerOutcome.thrown.isError
                             THEN providerOutcome.thrown.message
                             ELSE <<"Unknown transcription error">>)]

\* Faulty variant: no separator between chunk texts.
AppendText_NoSpace(combinedText, text, index) == combinedText \o text

\* combinedText after the text of transcription `index` (0-based) is added.
AppendText(combinedText, text, index) ==
    (IF index > 0 THEN combinedText \o <<" ">> ELSE combinedText) \o text

\* adjustedSegments: every field kept, start and end moved by timeOffset.
AdjustSegments(segments, timeOffset) ==
    [k \in 1..Len(segments) |->
        [segments[k] EXCEPT !.start = @ + timeOffset, !.end = @ + timeOffset]]

\* Faulty variant: the offset accumulates the rebased end.
NextTimeOffset_Rebased(segments, timeOffset) ==
    IF Len(segments) > 0
    THEN segments[Len(segments)].end + timeOffset
    ELSE timeOffset

\* timeOffset after a transcription with these (chunk-local) segments.
NextTimeOffset(segments, timeOffset) ==
    IF Len(segments) > 0 THEN segments[Len(segments)].end ELSE timeOffset

RECURSIVE CombineFrom(_, _, _)
\* The forEach: the accumulators after transcriptions index.. are folded in.
CombineFrom(transcriptions, index, acc) ==
    IF index >= Len(transcriptions)
    THEN acc
    ELSE LET transcription == transcriptions[index + 1]
         IN  CombineFrom(transcriptions, index + 1,
                [combinedText |->
                    AppendText(acc.combinedText, transcription.text, index),
                 combinedSegments |->
                    acc.combinedSegments
                        \o AdjustSegments(transcription.segments, acc.timeOffset),
                 timeOffset |->
                    NextTimeOffset(transcription.segments, acc.timeOffset)])

\* What combineTranscriptions returns (ok) or throws (~ok).
combineTranscriptions(transcriptions) ==
    IF Len(transcriptions) = 0
    THEN [ok |-> FALSE, thrown |-> ErrorOf(<<"No transcriptions to combine">>)]
    ELSE IF Len(transcriptions) = 1
    THEN [ok |-> TRUE, value |-> transcriptions[1]]
    ELSE LET acc == CombineFrom(transcriptions, 0,
                        [combinedText |-> <<>>, combinedSegments |-> <<>>,
                         timeOffset |-> 0])
         IN  [ok |-> TRUE,
              value |-> [text |-> Trim(acc.combinedText),
                         segments |-> acc.combinedSegments,
                         language |-> transcriptions[1].language]]

(***************************************************************************)
(* The orchestrator: the processTranscription server action                *)
(***************************************************************************)
ALLOWED_AUDIO_TYPES ==
    {"audio/mpeg", "audio/wav", "audio/mp4", "audio/x-m4a", "audio/webm",
     "audio/x-aiff", "audio/aac", "audio/ogg"}

SCHEMA_MAX_FILE_SIZE == 500 * MiB

\* transcriptionSchema: the message of its first failing refinement, if any.
SchemaError(f) ==
    IF f.type \notin ALLOWED_AUDIO_TYPES
    THEN Some(<<"Invalid file type. Please upload a supported audio file (MP3, WAV, MP4, M4A, etc.).">>)
    ELSE IF ~(f.size <= SCHEMA_MAX_FILE_SIZE)
    THEN Some(<<"File size too large. Maximum size is ",
                ToString(SCHEMA_MAX_FILE_SIZE \div MiB), "MB.">>)
    ELSE None

\* A response that carries only an error.
ErrorResponse(msg) == [error |-> Some(msg), success |-> None, transcription |-> None]

\* Faulty variant: the catch always answers with the generic message.
CatchResponse_Generic(thrown) ==
    ErrorResponse(<<"Failed to process transcription. Please try again.">>)

\* The top-level catch: what the action returns for a thrown value.
CatchResponse(thrown) ==
    ErrorResponse(IF thrown.isError
                  THEN thrown.message
                  ELSE <<"Failed to process transcription. Please try again.">>)

\* chunkName of chunk index (0-based).
ChunkName(index, fileName) == <<"chunk_", ToString(index), "_", fileName>>

\* Faulty variant: the message names the chunk by its 0-based index.
FailureMessage_ZeroBased(index, thrown) ==
    <<"Failed to transcribe segment ", ToString(index), ": ">>
        \o (IF thrown.isError THEN thrown.message ELSE <<"Unknown error">>)

\* The message pushed on errors when the call for chunk index (0-based) throws.
FailureMessage(index, thrown) ==
    <<"Failed to transcribe segment ", ToString(index + 1), ": ">>
        \o (IF thrown.isError THEN thrown.message ELSE <<"Unknown error">>)

\* Faulty variant: a failed chunk ends the loop.
IndexAfterFailure_Abort(index, totalChunks) == totalChunks

\* The loop index after the catch block of the chunk loop.
IndexAfterFailure(index, totalChunks) == index + 1

\* Faulty variant: the empty check is missing.
NoTranscriptions_Never(results) == FALSE

\* The check made before the merge.
NoTranscriptions(results) == Len(results) = 0

\* Ticks in a millisecond: one digit below what toFixed(3) keeps.
TicksPerMs == 2

TicksPerSecond == 1000 * TicksPerMs

\* Number(t.toFixed(3)): t rounded to a whole millisecond.
ToFixed3(t) == ((2 * t + TicksPerMs) \div (2 * TicksPerMs)) * TicksPerMs

\* Math.round of a time in seconds: whole seconds.
RoundSeconds(t) == (2 * t + TicksPerSecond) \div (2 * TicksPerSecond)

RECURSIVE MaxEnd(_)
\* Math.max(...segments.map(s => s.end)) of a non-empty list.
MaxEnd(segments) ==
    IF Len(segments) = 1 THEN segments[1].end
    ELSE Max(segments[1].end, MaxEnd(Tail(segments)))

StatusOf(errs) == IF Len(errs) > 0 THEN "partial" ELSE "complete"

ErrorLogOf(errs) == IF Len(errs) > 0 THEN Some(Join(errs, <<"\n">>)) ELSE None

\* transcriptionData as prepared for saveTranscription.
TranscriptionDataOf(team, audio, merged, errs) ==
    [teamId |-> team,
     userId |-> "user",
     fileName |-> audio.fileName,
     originalText |-> merged.text,
     segments |-> [k \in 1..Len(merged.segments) |->
                    [merged.segments[k] EXCEPT !.start = ToFixed3(@),
                                               !.end = ToFixed3(@)]],
     duration |-> RoundSeconds(IF Len(merged.segments) > 0
                               THEN MaxEnd(merged.segments) ELSE 0),
     language |-> merged.language,
     fileType |-> audio.fileType,
     fileSize |-> audio.totalSize,
     status |-> StatusOf(errs),
     errorLog |-> ErrorLogOf(errs)]

\* The response returned after the record is saved.
SuccessResponse(row, errs) ==
    [success |-> Some(IF Len(errs) > 0
                      THEN <<"Transcription completed with some errors">>
                      ELSE <<"Transcription completed successfully">>),
     transcription |-> Some(row),
     error |-> IF Len(errs) > 0 THEN Some(Join(errs, <<"\n">>)) ELSE None]

\* saveTranscription, when the insert succeeds: the row it returns.
SavedRow(rows, data) == [id |-> Len(rows) + 1, data |-> data]

(***************************************************************************)
(* Inputs: what the environment may hand to the program.                   *)
(***************************************************************************)
FileTypes == {"audio/mpeg", "text/plain"}

FileOf(size, type) == [size |-> size, type |-> type, name |-> "talk.mp3"]

\* Sizes around every MiB boundary up to MaxFileMiB.
ChunkerSizes ==
    {s \in {k * MiB + d : k \in 0..MaxFileMiB, d \in {-1, 0, 1}} : s >= 0}

\* Sizes that give 1..MaxChunks chunks, and one the schema rejects.
SubmissionSizes ==
    {0, GROQ_SIZE_LIMIT, SCHEMA_MAX_FILE_SIZE + 1}
        \cup {k * MAX_CHUNK_SIZE : k \in 2..MaxChunks}

Chars == {"a", " "}

Languages == {"en", "es"}

Segs ==
    UNION {{[start |-> st, end |-> en] : en \in st..MaxTime} : st \in 0..MaxTime}

\* The provider numbers the segments of a response from 0.
WithIds(list) ==
    [k \in 1..Len(list) |->
        [id |-> k - 1, start |-> list[k].start, end |-> list[k].end]]

RECURSIVE Compositions(_, _)
\* The sequences of n naturals that add up to total.
Compositions(total, n) ==
    IF n = 0 THEN (IF total = 0 THEN {<<>>} ELSE {})
    ELSE UNION {{<<h>> \o rest : rest \in Compositions(total - h, n - 1)}
                    : h \in 0..total}

RECURSIVE SumBefore(_, _)
\* lens[1] + ... + lens[k - 1]
SumBefore(lens, k) ==
    IF k <= 1 THEN 0 ELSE lens[k - 1] + SumBefore(lens, k - 1)

\* flat cut into consecutive pieces of the lengths lens.
Cut(flat, lens) ==
    [k \in 1..Len(lens) |->
        SubSeq(flat, SumBefore(lens, k) + 1, SumBefore(lens, k) + lens[k])]

WholeSegment == <<[start |-> 0, end |-> MaxTime]>>

\* A merge whose transcripts differ in their segments.
SegmentInput(lists) ==
    [k \in 1..Len(lists) |->
        [text |-> <<"a">>, segments |-> WithIds(lists[k]), language |-> "en"]]

\* A merge whose transcripts differ in their texts.
TextInput(texts) ==
    [k \in 1..Len(texts) |->
        [text |-> texts[k], segments |-> WithIds(WholeSegment), language |-> "en"]]

\* A merge whose transcripts differ in their languages.
LanguageInput(langs) ==
    [k \in 1..Len(langs) |->
        [text |-> <<"a">>, segments |-> WithIds(WholeSegment),
         language |-> langs[k]]]

\* What the provider may answer to one call of a submission.
ProviderResponses ==
    {[text |-> <<"a">>, segments |-> WithIds(WholeSegment), language |-> "en"],
     [text |-> <<" ", "a">>, segments |-> <<>>, language |-> "es"],
     [text |-> <<"a", " ">>,
      segments |-> WithIds(<<[start |-> 0, end |-> MaxTime],
                             [start |-> 0, end |-> 0]>>),
      language |-> "en"]}

ProviderThrown == {ErrorOf(<<"rate limit">>), NonError}

StoreThrown == {ErrorOf(<<"db error">>), NonError}

\* What getUserWithTeam may resolve to: no row, a user without a team, a member.
UserRows == {None, Some([teamId |-> None]), Some([teamId |-> Some(7)])}

TheOf(opt) == CHOOSE v \in opt : TRUE

\* userWithTeam?.teamId
TeamIdOf(u) == IF u = None THEN None ELSE TheOf(u).teamId

(***************************************************************************)
(* The submission: one run of processTranscription.                        *)
(***************************************************************************)
Init ==
    /\ file \in {FileOf(s, t) : s \in SubmissionSizes, t \in FileTypes}
    /\ pc = "validate"
    /\ userWithTeam = None
    /\ processedAudio = None
    /\ i = 0
    /\ completedChunks = 0
    /\ calls = <<>>
    /\ outcomes = <<>>
    /\ transcriptionResults = <<>>
    /\ errors = <<>>
    /\ mergeInputs = <<>>
    /\ combined = None
    /\ transcriptionData = None
    /\ saveCalls = 0
    /\ db = <<>>
    /\ caught = None
    /\ response = None

\* validatedActionWithUser: the schema is parsed before the action body runs.
ValidateInput ==
    /\ pc = "validate"
    /\ IF SchemaError(file) = None
       THEN pc' = "getUserWithTeam" /\ UNCHANGED response
       ELSE pc' = "failed" /\ response' = ErrorResponse(TheOf(SchemaError(file)))
    /\ UNCHANGED <<caught, file, userWithTeam, processedAudio, i, completedChunks, calls,
                   outcomes, transcriptionResults, errors, mergeInputs, combined,
                   transcriptionData, saveCalls, db>>

\* getUserWithTeam resolves; a user without a team is turned away.
VerifyTeam ==
    /\ pc = "getUserWithTeam"
    /\ \E u \in UserRows :
        /\ userWithTeam' = u
        /\ IF TeamIdOf(u) = None
           THEN /\ pc' = "failed"
                /\ response' = ErrorResponse(<<"User is not part of a team">>)
           ELSE pc' = "processAudioFile" /\ UNCHANGED response
    /\ UNCHANGED <<caught, file, processedAudio, i, completedChunks, calls, outcomes,
                   transcriptionResults, errors, mergeInputs, combined,
                   transcriptionData, saveCalls, db>>

\* getUserWithTeam rejects: the top-level catch answers.
VerifyTeamThrows ==
    /\ pc = "getUserWithTeam"
    /\ \E e \in StoreThrown :
        /\ pc' = "failed"
        /\ caught' = Some(e)
        /\ response' = CatchResponse(e)
    /\ UNCHANGED <<file, userWithTeam, processedAudio, i, completedChunks, calls,
                   outcomes, transcriptionResults, errors, mergeInputs, combined,
                   transcriptionData, saveCalls, db>>

\* processAudioFile(data.file), and the loop variables set up after it.
ChunkFile ==
    /\ pc = "processAudioFile"
    /\ LET r == processAudioFile(file)
       IN  IF r.ok
           THEN /\ processedAudio' = r
                /\ pc' = "loop"
                /\ UNCHANGED <<caught, response>>
           ELSE /\ pc' = "failed"
                /\ caught' = Some(r.thrown)
                /\ response' = CatchResponse(r.thrown)
                /\ UNCHANGED processedAudio
    /\ i' = 0
    /\ completedChunks' = 0
    /\ transcriptionResults' = <<>>
    /\ errors' = <<>>
    /\ UNCHANGED <<file, userWithTeam, calls, outcomes, mergeInputs, combined,
                   transcriptionData, saveCalls, db>>

\* One iteration starts: transcribeAudio(chunk, chunkName) is called and awaited.
StartCall ==
    /\ pc = "loop"
    /\ i < Len(processedAudio.chunks)
    /\ calls' = Append(calls, [index |-> i,
                               chunk |-> processedAudio.chunks[i + 1],
                               name |-> ChunkName(i, processedAudio.fileName)])
    /\ pc' = "transcribeAudio"
    /\ UNCHANGED <<caught, file, userWithTeam, processedAudio, i, completedChunks,
                   outcomes, transcriptionResults, errors, mergeInputs, combined,
                   transcriptionData, saveCalls, db, response>>

\* The provider answers: the result is pushed and the loop goes on.
ProviderAnswers ==
    /\ pc = "transcribeAudio"
    /\ \E r \in ProviderResponses :
        LET result == transcribeAudio([ok |-> TRUE, value |-> r])
        IN  /\ outcomes' = Append(outcomes, [ok |-> TRUE, value |-> r])
            /\ transcriptionResults' = Append(transcriptionResults, result.value)
    /\ completedChunks' = completedChunks + 1
    /\ i' = i + 1
    /\ pc' = "loop"
    /\ UNCHANGED <<caught, file, userWithTeam, processedAudio, calls, errors, mergeInputs,
                   combined, transcriptionData, saveCalls, db, response>>

\* Faulty variant: the loop body has no try/catch of its own.
ProviderThrows_Fatal ==
    /\ pc = "transcribeAudio"
    /\ \E e \in ProviderThrown :
        LET result == transcribeAudio([ok |-> FALSE, thrown |-> e])
        IN  /\ outcomes' = Append(outcomes, [ok |-> FALSE, thrown |-> e])
            /\ caught' = Some(result.thrown)
            /\ response' = CatchResponse(result.thrown)
    /\ pc' = "failed"
    /\ UNCHANGED <<file, userWithTeam, processedAudio, i, completedChunks, calls,
                   errors, transcriptionResults, mergeInputs, combined,
                   transcriptionData, saveCalls, db>>

\* The provider call throws: the message is pushed and the loop goes on.
ProviderThrows ==
    /\ pc = "transcribeAudio"
    /\ \E e \in ProviderThrown :
        LET result == transcribeAudio([ok |-> FALSE, thrown |-> e])
        IN  /\ outcomes' = Append(outcomes, [ok |-> FALSE, thrown |-> e])
            /\ errors' = Append(errors, FailureMessage(i, result.thrown))
    /\ i' = IndexAfterFailure(i, Len(processedAudio.chunks))
    /\ pc' = "loop"
    /\ UNCHANGED <<caught, file, userWithTeam, processedAudio, completedChunks, calls,
                   transcriptionResults, mergeInputs, combined, transcriptionData,
                   saveCalls, db, response>>

\* The loop condition fails: on to the merge.
LoopExit ==
    /\ pc = "loop"
    /\ ~(i < Len(processedAudio.chunks))
    /\ pc' = "combine"
    /\ UNCHANGED <<caught, file, userWithTeam, processedAudio, i, completedChunks, calls,
                   outcomes, transcriptionResults, errors, mergeInputs, combined,
                   transcriptionData, saveCalls, db, response>>

\* The empty check, combineTranscriptions, and the record prepared from it.
Merge ==
    /\ pc = "combine"
    /\ IF NoTranscriptions(transcriptionResults)
       THEN LET e == ErrorOf(<<"Failed to transcribe any part of the audio file">>)
            IN  /\ pc' = "failed"
                /\ caught' = Some(e)
                /\ response' = CatchResponse(e)
                /\ UNCHANGED <<mergeInputs, combined, transcriptionData>>
       ELSE LET merged == combineTranscriptions(transcriptionResults)
            IN  /\ mergeInputs' = Append(mergeInputs, transcriptionResults)
                /\ combined' = merged
                /\ IF merged.ok
                   THEN /\ transcriptionData' =
                                Some(TranscriptionDataOf(TheOf(TeamIdOf(userWithTeam)),
                                        processedAudio, merged.value, errors))
                        /\ pc' = "saveTranscription"
                        /\ UNCHANGED <<caught, response>>
                   ELSE /\ pc' = "failed"
                        /\ caught' = Some(merged.thrown)
                        /\ response' = CatchResponse(merged.thrown)
                        /\ UNCHANGED transcriptionData
    /\ UNCHANGED <<file, userWithTeam, processedAudio, i, completedChunks, calls,
                   outcomes, transcriptionResults, errors, saveCalls, db>>

\* saveTranscription inserts the row and returns it.
SaveSucceeds ==
    /\ pc = "saveTranscription"
    /\ saveCalls' = saveCalls + 1
    /\ LET row == SavedRow(db, TheOf(transcriptionData))
       IN  /\ db' = Append(db, row)
           /\ response' = SuccessResponse(row, errors)
    /\ pc' = "done"
    /\ UNCHANGED <<caught, file, userWithTeam, processedAudio, i, completedChunks, calls,
                   outcomes, transcriptionResults, errors, mergeInputs, combined,
                   transcriptionData>>

\* saveTranscription rejects and inserts nothing: the top-level catch answers.
SaveThrows ==
    /\ pc = "saveTranscription"
    /\ saveCalls' = saveCalls + 1
    /\ \E e \in StoreThrown :
        /\ caught' = Some(e)
        /\ response' = CatchResponse(e)
    /\ pc' = "failed"
    /\ UNCHANGED <<file, userWithTeam, processedAudio, i, completedChunks, calls,
                   outcomes, transcriptionResults, errors, mergeInputs, combined,
                   transcriptionData, db>>

Next ==
    \/ ValidateInput
    \/ VerifyTeam
    \/ VerifyTeamThrows
    \/ ChunkFile
    \/ StartCall
    \/ ProviderAnswers
    \/ ProviderThrows
    \/ LoopExit
    \/ Merge
    \/ SaveSucceeds
    \/ SaveThrows

Spec == Init /\ [][Next]_vars

(***************************************************************************)
(* The chunker on its own: processAudioFile applied to one payload.        *)
(***************************************************************************)
InitChunker ==
    /\ file \in {FileOf(s, t) : s \in ChunkerSizes, t \in FileTypes}
    /\ pc = "chunker:call"
    /\ userWithTeam = None
    /\ processedAudio = None
    /\ i = 0
    /\ completedChunks = 0
    /\ calls = <<>>
    /\ outcomes = <<>>
    /\ transcriptionResults = <<>>
    /\ errors = <<>>
    /\ mergeInputs = <<>>
    /\ combined = None
    /\ transcriptionData = None
    /\ saveCalls = 0
    /\ db = <<>>
    /\ caught = None
    /\ response = None

ChunkerCall ==
    /\ pc = "chunker:call"
    /\ processedAudio' = processAudioFile(file)
    /\ pc' = "chunker:returned"
    /\ UNCHANGED <<caught, file, userWithTeam, i, completedChunks, calls, outcomes,
                   transcriptionResults, errors, mergeInputs, combined,
                   transcriptionData, saveCalls, db, response>>

SpecChunker == InitChunker /\ [][ChunkerCall]_vars

(***************************************************************************)
(* The merger on its own: combineTranscriptions applied to one list.       *)
(***************************************************************************)
InitMerger ==
    /\ file = FileOf(0, "audio/mpeg")
    /\ pc = "merger:call"
    /\ userWithTeam = None
    /\ processedAudio = None
    /\ i = 0
    /\ completedChunks = 0
    /\ calls = <<>>
    /\ outcomes = <<>>
    /\ \E n \in 0..MaxChunks :
        \/ \E total \in 0..MaxSegments :
            \E flat \in [1..total -> Segs], lens \in Compositions(total, n) :
                transcriptionResults = SegmentInput(Cut(flat, lens))
        \/ \E total \in 0..MaxTextLen :
            \E flat \in [1..total -> Chars], lens \in Compositions(total, n) :
                transcriptionResults = TextInput(Cut(flat, lens))
        \/ \E langs \in [1..n -> Languages] :
                transcriptionResults = LanguageInput(langs)
    /\ errors = <<>>
    /\ mergeInputs = <<>>
    /\ combined = None
    /\ transcriptionData = None
    /\ saveCalls = 0
    /\ db = <<>>
    /\ caught = None
    /\ response = None

MergerCall ==
    /\ pc = "merger:call"
    /\ mergeInputs' = Append(mergeInputs, transcriptionResults)
    /\ combined' = combineTranscriptions(transcriptionResults)
    /\ pc' = "merger:returned"
    /\ UNCHANGED <<caught, file, userWithTeam, processedAudio, i, completedChunks, calls,
                   outcomes, transcriptionResults, errors, transcriptionData,
                   saveCalls, db, response>>

SpecMerger == InitMerger /\ [][MergerCall]_vars

(***************************************************************************)
(* Properties of the chunker (SpecChunker).                                *)
(***************************************************************************)
ChunkerReturned == pc = "chunker:returned"

ChunkBytes(chunk) == chunk.end - chunk.start

\* C1: a payload of more than 25 MiB and at most 500 MiB is returned as
\* consecutive ranges that start at offset 0, end at the payload's length and
\* touch one another (no gap, overlap or reordering); every range but the last
\* is exactly 20 MiB and the last is at least one byte and at most 20 MiB.
C1_LargePayloadIsPartitioned ==
    (ChunkerReturned /\ file.size > 25 * MiB /\ file.size <= 500 * MiB) =>
        /\ processedAudio.ok
        /\ LET chunks == processedAudio.chunks
               n == Len(chunks)
           IN  /\ n >= 2
               /\ chunks[1].start = 0
               /\ chunks[n].end = file.size
               /\ \A k \in 1..n :
                    /\ ChunkBytes(chunks[k]) >= 1
                    /\ ChunkBytes(chunks[k]) <= 20 * MiB
               /\ \A k \in 1..(n - 1) :
                    /\ ChunkBytes(chunks[k]) = 20 * MiB
                    /\ chunks[k + 1].start = chunks[k].end

\* A 41 MiB - 1 byte payload came back as three chunks, the last one smaller.
C1_Witness ==
    /\ ChunkerReturned
    /\ file.size = 41 * MiB - 1
    /\ processedAudio.ok
    /\ Len(processedAudio.chunks) = 3
    /\ ChunkBytes(processedAudio.chunks[3]) < 20 * MiB

\* C2: a payload of at most 25 MiB (0 and exactly 25 MiB included) is returned
\* as exactly one chunk, and that chunk is the whole payload.
C2_SmallPayloadIsOneChunk ==
    (ChunkerReturned /\ file.size <= 25 * MiB) =>
        /\ processedAudio.ok
        /\ processedAudio.chunks =
                <<[start |-> 0, end |-> file.size, type |-> file.type]>>

\* A payload of exactly 25 MiB came back as one chunk.
C2_Witness ==
    /\ ChunkerReturned
    /\ file.size = 25 * MiB
    /\ processedAudio.ok
    /\ Len(processedAudio.chunks) = 1

\* C3 as stated: every chunk of an accepted payload (at most 500 MiB) is at
\* most 25 MiB and also at most 20 MiB.
C3_AsStated ==
    (ChunkerReturned /\ file.size <= 500 * MiB) =>
        /\ processedAudio.ok
        /\ \A k \in 1..Len(processedAudio.chunks) :
            /\ ChunkBytes(processedAudio.chunks[k]) <= 25 * MiB
            /\ ChunkBytes(processedAudio.chunks[k]) <= 20 * MiB

\* C3 as amended: every chunk of an accepted payload is at most 25 MiB, and a
\* chunk exceeds 20 MiB only when it is the single chunk of a payload of more
\* than 20 MiB and at most 25 MiB, which is returned whole.
C3_ChunkSizeCeiling ==
    (ChunkerReturned /\ file.size <= 500 * MiB) =>
        /\ processedAudio.ok
        /\ \A k \in 1..Len(processedAudio.chunks) :
            /\ ChunkBytes(processedAudio.chunks[k]) <= 25 * MiB
            /\ ChunkBytes(processedAudio.chunks[k]) > 20 * MiB =>
                /\ Len(processedAudio.chunks) = 1
                /\ file.size > 20 * MiB
                /\ file.size <= 25 * MiB
                /\ ChunkBytes(processedAudio.chunks[k]) = file.size

\* A payload of 20 MiB + 1 byte came back as one chunk above the 20 MiB target.
C3_Witness ==
    /\ ChunkerReturned
    /\ file.size = 20 * MiB + 1
    /\ processedAudio.ok
    /\ Len(processedAudio.chunks) = 1
    /\ ChunkBytes(processedAudio.chunks[1]) > 20 * MiB

(***************************************************************************)
(* Properties of the merger (SpecMerger).                                  *)
(***************************************************************************)
\* combineTranscriptions has returned from a merge of two or more transcripts.
MergedSeveral ==
    /\ pc = "merger:returned"
    /\ Len(transcriptionResults) >= 2

\* The chunk texts in input order, one space between consecutive texts.
SpaceJoinedTexts ==
    Join([k \in 1..Len(transcriptionResults) |-> transcriptionResults[k].text],
         <<" ">>)

\* C4 as stated: the combined text of two or more transcripts is the chunk
\* texts in input order with exactly one space between consecutive texts, and
\* no other character added, removed or changed.
C4_AsStated ==
    MergedSeveral =>
        /\ combined.ok
        /\ combined.value.text = SpaceJoinedTexts

\* C4 as amended: the combined text is that space-joined string with its
\* leading and trailing white space cut off and nothing else changed: it is
\* the part of the joined string between two cuts, all that is cut off is
\* white space, and what is left neither starts nor ends with white space.
C4_CombinedTextIsTrimmedJoin ==
    MergedSeveral =>
        /\ combined.ok
        /\ LET joined == SpaceJoinedTexts
               text == combined.value.text
           IN  \E a \in 0..Len(joined) :
                /\ a + Len(text) <= Len(joined)
                /\ text = SubSeq(joined, a + 1, a + Len(text))
                /\ \A k \in 1..a : joined[k] \in {" ", "\t", "\n"}
                /\ \A k \in (a + Len(text) + 1)..Len(joined) :
                        joined[k] \in {" ", "\t", "\n"}
                /\ Len(text) > 0 =>
                        /\ text[1] \notin {" ", "\t", "\n"}
                        /\ text[Len(text)] \notin {" ", "\t", "\n"}

\* Three transcripts were merged, the first text starting with a space: the
\* combined text is shorter than the space-joined texts.
C4_Witness ==
    /\ MergedSeveral
    /\ Len(transcriptionResults) = 3
    /\ transcriptionResults[1].text = <<" ", "a">>
    /\ transcriptionResults[3].text = <<"a">>
    /\ combined.ok
    /\ combined.value.text = <<"a", " ", " ", "a">>

\* The chunks before chunk k that have at least one segment.
SegmentedBefore(k) ==
    {j \in 1..(k - 1) : Len(transcriptionResults[j].segments) > 0}

\* The offset the claim gives chunk k: 0 when no chunk before it has segments,
\* else the chunk-local end of the last segment of the nearest such chunk.
ClaimedOffset(k) ==
    IF SegmentedBefore(k) = {}
    THEN 0
    ELSE LET j == CHOOSE m \in SegmentedBefore(k) :
                        \A o \in SegmentedBefore(k) : o <= m
             last == transcriptionResults[j].segments
         IN  last[Len(last)].end

\* The segments of chunk k, each moved by off, in their order.
MovedSegments(k, off) ==
    [m \in 1..Len(transcriptionResults[k].segments) |->
        LET sg == transcriptionResults[k].segments[m]
        IN  [id |-> sg.id, start |-> sg.start + off, end |-> sg.end + off]]

\* C5: the combined segments of two or more transcripts are the chunks'
\* segments in chunk order and in their order within each chunk, those of
\* chunk k moved (start and end alike) by the chunk-local end of the last
\* segment of the nearest earlier chunk that has segments, or by 0 when there
\* is none; a chunk without segments leaves the offset as it was.
C5_SegmentsRebasedByPrecedingLocalEnd ==
    MergedSeveral =>
        /\ combined.ok
        /\ combined.value.segments =
                Concat([k \in 1..Len(transcriptionResults) |->
                            MovedSegments(k, ClaimedOffset(k))])

\* Three transcripts were merged: the first ends at a positive time, the second
\* has no segment, and the third's segment was moved by the first's end.
C5_Witness ==
    /\ MergedSeveral
    /\ Len(transcriptionResults) = 3
    /\ Len(transcriptionResults[1].segments) = 1
    /\ transcriptionResults[1].segments[1].end = MaxTime
    /\ Len(transcriptionResults[2].segments) = 0
    /\ Len(transcriptionResults[3].segments) = 1
    /\ combined.ok
    /\ Len(combined.value.segments) = 2
    /\ combined.value.segments[2].start =
            transcriptionResults[3].segments[1].start + MaxTime
    /\ combined.value.segments[2].end =
            transcriptionResults[3].segments[1].end + MaxTime

\* Every chunk's own segments are well formed: 0 <= start <= end, and ordered
\* by start within the chunk.
WellFormedChunks ==
    \A k \in 1..Len(transcriptionResults) :
        LET segs == transcriptionResults[k].segments
        IN  /\ \A m \in 1..Len(segs) : 0 <= segs[m].start /\ segs[m].start <= segs[m].end
            /\ \A m \in 1..(Len(segs) - 1) : segs[m].start <= segs[m + 1].start

RECURSIVE SegmentsBefore(_)
\* The number of segments of the chunks before chunk k.
SegmentsBefore(k) ==
    IF k <= 1 THEN 0
    ELSE Len(transcriptionResults[k - 1].segments) + SegmentsBefore(k - 1)

\* The combined segment that came from segment m of chunk k.
CombinedSegment(k, m) == combined.value.segments[SegmentsBefore(k) + m]

\* The chunks that have at least one segment.
Segmented ==
    {k \in 1..Len(transcriptionResults) : Len(transcriptionResults[k].segments) > 0}

\* The offset that was applied to chunk k, read off its first combined segment.
AppliedOffset(k) ==
    CombinedSegment(k, 1).start - transcriptionResults[k].segments[1].start

\* C11: in a merge of any number of transcripts whose chunk-local segments are
\* well formed, the combined segments are ordered by start time, every segment
\* of a chunk starts no earlier than the rebased end of the last segment of
\* the chunk before it, and the offset applied to a later chunk is never
\* smaller than the offset applied to an earlier one.
C11_GlobalTimelineOrdered ==
    (pc = "merger:returned" /\ Len(transcriptionResults) >= 1 /\ WellFormedChunks) =>
        /\ combined.ok
        /\ LET segs == combined.value.segments
           IN  \A m \in 1..(Len(segs) - 1) : segs[m].start <= segs[m + 1].start
        /\ \A k \in 1..(Len(transcriptionResults) - 1) :
            (k \in Segmented /\ (k + 1) \in Segmented) =>
                \A m \in 1..Len(transcriptionResults[k + 1].segments) :
                    CombinedSegment(k, Len(transcriptionResults[k].segments)).end
                        <= CombinedSegment(k + 1, m).start
        /\ \A j \in Segmented : \A k \in Segmented :
            j < k => AppliedOffset(j) <= AppliedOffset(k)

(***************************************************************************)
(* Properties of the submission (Spec).                                    *)
(***************************************************************************)
\* The chunk loop is over: every call it issued has been answered.
LoopOver == pc \in {"combine", "saveTranscription", "done"}
                \/ (pc = "failed" /\ Len(calls) > 0)

\* The 1-based numbers of the chunks whose call succeeded, and failed.
Succeeded == {k \in 1..Len(outcomes) : outcomes[k].ok}

Failed == {k \in 1..Len(outcomes) : ~outcomes[k].ok}

RECURSIVE SuccessfulFrom(_)
\* The provider's responses to the successful calls from call k on, in order.
SuccessfulFrom(k) ==
    IF k > Len(outcomes) THEN <<>>
    ELSE IF outcomes[k].ok THEN <<outcomes[k].value>> \o SuccessfulFrom(k + 1)
    ELSE SuccessfulFrom(k + 1)

\* What the client reports for a failed call: the provider's own message.
ReportedReason(k) ==
    IF outcomes[k].thrown.isError
    THEN outcomes[k].thrown.message
    ELSE <<"Unknown transcription error">>

RECURSIVE FailureLinesFrom(_)
\* One line per failed call from call k on, in order, each naming its chunk.
FailureLinesFrom(k) ==
    IF k > Len(outcomes) THEN <<>>
    ELSE IF outcomes[k].ok THEN FailureLinesFrom(k + 1)
    ELSE <<(<<"Failed to transcribe segment ", ToString(k), ": ">>
                \o ReportedReason(k))>> \o FailureLinesFrom(k + 1)

RECURSIVE NewlineJoined(_)
NewlineJoined(lines) ==
    IF Len(lines) = 1 THEN lines[1]
    ELSE lines[1] \o <<"\n">> \o NewlineJoined(Tail(lines))

\* C6: a submission with at least one successful chunk goes on, once the chunk
\* loop is over, to merge and to call saveTranscription once: the merger was
\* given exactly the successful transcripts in chunk order (once, nothing
\* else), and the record handed to saveTranscription carries the merged text;
\* with at least one failed chunk its status is 'partial' and its error log
\* is the newline-joined list of one message per failed chunk, in chunk
\* order, each naming the chunk by its 1-based number ("segment k"); with no
\* failed chunk the status is 'complete' and the error log is absent; the row
\* stored, when the store accepts it, is that record.
C6_PartialRecord ==
    (LoopOver /\ Succeeded # {} /\ pc # "combine") =>
        /\ pc \in {"saveTranscription", "done", "failed"}
        /\ saveCalls = (IF pc = "saveTranscription" THEN 0 ELSE 1)
        /\ mergeInputs = <<SuccessfulFrom(1)>>
        /\ transcriptionData # None
        /\ LET data == TheOf(transcriptionData)
           IN  /\ combined.ok
               /\ data.originalText = combined.value.text
               /\ Failed # {} =>
                    /\ data.status = "partial"
                    /\ data.errorLog = {NewlineJoined(FailureLinesFrom(1))}
               /\ Failed = {} =>
                    /\ data.status = "complete"
                    /\ data.errorLog = {}
               /\ pc = "done" =>
                    /\ Len(db) = 1
                    /\ db[1].data = data
                    /\ response.transcription = {db[1]}

\* Chunk 2 of 3 failed: chunks 1 and 3 were merged and a 'partial' record
\* whose error log names segment 2 was stored.
C6_Witness ==
    /\ pc = "done"
    /\ Len(outcomes) = 3
    /\ Succeeded = {1, 3}
    /\ mergeInputs = <<(<<outcomes[1].value, outcomes[3].value>>)>>
    /\ Len(db) = 1
    /\ db[1].data.status = "partial"
    /\ db[1].data.errorLog =
            {<<"Failed to transcribe segment ", "2", ": ", "rate limit">>}

\* C7: when the call for every chunk has failed, the run ends in failure with
\* the error 'Failed to transcribe any part of the audio file', no success
\* message and no record; the merger is never called with an empty list (nor,
\* in such a run, at all), and saveTranscription is never called.
C7_AllChunksFail ==
    /\ \A k \in 1..Len(mergeInputs) : Len(mergeInputs[k]) > 0
    /\ (LoopOver /\ Succeeded = {}) =>
        /\ pc \in {"combine", "failed"}
        /\ mergeInputs = <<>>
        /\ saveCalls = 0
        /\ db = <<>>
        /\ pc = "failed" =>
            response = [error |-> {<<"Failed to transcribe any part of the audio file">>},
                        success |-> {}, transcription |-> {}]

\* All three chunks of a submission failed and the run ended in failure.
C7_Witness ==
    /\ pc = "failed"
    /\ Len(outcomes) = 3
    /\ Succeeded = {}
    /\ response.error = {<<"Failed to transcribe any part of the audio file">>}

\* C8: the provider is called once per chunk, in chunk order and with that
\* chunk; a call is issued only when every earlier call has been answered;
\* when the loop is over all N chunks have been called and answered, whatever
\* failed; saveTranscription is called only after all N answers.
C8_OneSequentialCallPerChunk ==
    /\ \A k \in 1..Len(calls) :
        /\ calls[k].index = k - 1
        /\ calls[k].chunk = processedAudio.chunks[k]
    /\ Len(outcomes) <= Len(calls)
    /\ Len(calls) <= Len(outcomes) + 1
    /\ (Len(calls) = Len(outcomes) + 1) <=> (pc = "transcribeAudio")
    /\ Len(calls) > 0 => Len(calls) <= Len(processedAudio.chunks)
    /\ LoopOver =>
        /\ Len(calls) = Len(processedAudio.chunks)
        /\ Len(outcomes) = Len(processedAudio.chunks)
    /\ saveCalls > 0 => (LoopOver /\ Len(outcomes) = Len(processedAudio.chunks))

\* The first of three calls failed, the other two were still made, and the
\* record was saved after the third.
C8_Witness ==
    /\ pc = "done"
    /\ saveCalls = 1
    /\ Len(calls) = 3
    /\ Failed = {1}
    /\ Succeeded = {2, 3}

\* The state of the submission state machine the code position belongs to.
Stage(p) ==
    CASE p \in {"validate", "getUserWithTeam"} -> "Validating"
      [] p = "processAudioFile" -> "Chunking"
      [] p \in {"loop", "transcribeAudio"} -> "Transcribing"
      [] p = "combine" -> "Merging"
      [] p = "saveTranscription" -> "Persisting"
      [] p = "done" -> "Done"
      [] p = "failed" -> "Failed"

\* The order of the states on a run that does not fail.
StageOrder ==
    {<<"Validating", "Chunking">>, <<"Chunking", "Transcribing">>,
     <<"Transcribing", "Merging">>, <<"Merging", "Persisting">>,
     <<"Persisting", "Done">>}

\* C9 as stated: the states are passed in the order Validating, Chunking,
\* Transcribing, Merging, Persisting, Done, and Failed is entered only from
\* Validating or from Merging.
C9_AsStated ==
    [][Stage(pc') # Stage(pc) =>
            \/ <<Stage(pc), Stage(pc')>> \in StageOrder
            \/ /\ Stage(pc') = "Failed"
               /\ Stage(pc) \in {"Validating", "Merging"}]_vars

\* C9 as amended: the states are passed in that order, and Failed is entered
\* only from Validating, Chunking, Merging or Persisting, never from
\* Transcribing, and no state is left once Done or Failed is reached.
C9_StageOrder ==
    [][Stage(pc') # Stage(pc) =>
            \/ <<Stage(pc), Stage(pc')>> \in StageOrder
            \/ /\ Stage(pc') = "Failed"
               /\ Stage(pc) \in {"Validating", "Chunking", "Merging", "Persisting"}]_vars

\* A run failed in Persisting: the record was prepared, saveTranscription was
\* called, and the run ended in Failed.
C9_Witness ==
    /\ pc = "failed"
    /\ transcriptionData # None
    /\ saveCalls = 1
    /\ db = <<>>

\* C10 as stated: whatever the top-level catch received, the action returns a
\* response whose error is the generic failure message, with no success
\* message and no record, and nothing has been stored.
C10_AsStated ==
    caught # None =>
        /\ pc = "failed"
        /\ response = [error |-> {<<"Failed to process transcription. Please try again.">>},
                       success |-> {}, transcription |-> {}]
        /\ db = <<>>

\* C10 as amended: whatever the top-level catch received, the action returns
\* a response with no success message and no record, nothing has been stored,
\* and the error is the thrown Error's own message, or the generic failure
\* message when what was thrown is not an Error.
C10_CaughtIsReported ==
    caught # None =>
        /\ pc = "failed"
        /\ response.success = {}
        /\ response.transcription = {}
        /\ db = <<>>
        /\ \A e \in caught :
            /\ e.isError => response.error = {e.message}
            /\ ~e.isError =>
                response.error = {<<"Failed to process transcription. Please try again.">>}

\* saveTranscription threw an Error: its message is the response's error.
C10_Witness ==
    /\ pc = "failed"
    /\ saveCalls = 1
    /\ caught = {[isError |-> TRUE, message |-> <<"db error">>]}
    /\ response.error = {<<"db error">>}
    /\ db = <<>>

====
